---- MODULE Spec2Model ----
(***************************************************************************)
(* A model of lib/models/instantiate-addons.js: instantiateAddons orders   *)
(* the child addons of a parent with a DAGMap built from their             *)
(* before/after lists, then resolves, loads and constructs each of them in *)
(* that order, recursing into each new addon's own initializeAddons.       *)
(*                                                                         *)
(* Strings that the code takes apart (the manifests' main, the paths) are  *)
(* sequences of one-character strings; addon names are numbers.            *)
(***************************************************************************)
EXTENDS Integers, Sequences, FiniteSets, TLC

\* ------------------------------------------------------------------ bounds

\* The most addon packages one mapping holds.
MaxAddons == 3

\* The most before/after entries the packages of one mapping declare together.
MaxConstraints == 2

\* The longest main string of a manifest, in characters.
MaxMainLen == 3

\* The deepest nesting of addons below the outermost call's.
MaxDepth == 2

\* ------------------------------------------------------------- basic values

\* A property's value is Undefined (a missing property) or Def(x), and Val(p) is
\* the x of a defined one.
Undefined == <<>>

Def(x) == <<x>>

Val(p) == p[1]

\* An addon name that is no key of the mapping (it only occurs in before/after lists).
UnknownName == 0

\* The characters main strings are made of.
Chars == {"a", ".", "/"}

Digit == <<"1", "2", "3", "4", "5", "6", "7", "8", "9">>

Last(s) == s[Len(s)]

Front(s) == SubSeq(s, 1, Len(s) - 1)

IndexJs == <<"i", "n", "d", "e", "x", ".", "j", "s">>

DotJs == <<".", "j", "s">>

\* ------------------------------------------------------------ node's path

\* The index of the last character of s that is not a "/", 0 when there is none.
RECURSIVE LastNonSlash(_, _)
LastNonSlash(s, i) ==
  IF i = 0 THEN 0
  ELSE IF s[i] /= "/" THEN i
  ELSE LastNonSlash(s, i - 1)

\* The index where the path component that ends at index e starts.
RECURSIVE PartStart(_, _)
PartStart(s, e) ==
  IF e = 0 THEN 1
  ELSE IF s[e] = "/" THEN e + 1
  ELSE PartStart(s, e - 1)

\* path.extname's scan, from index i down to startPart, of the component that
\* ends at `end`: st is [startDot, preDotState].
RECURSIVE ExtScan(_, _, _, _)
ExtScan(s, i, startPart, st) ==
  IF i < startPart THEN st
  ELSE IF s[i] = "."
    THEN IF st.startDot = -1
           THEN ExtScan(s, i - 1, startPart, [st EXCEPT !.startDot = i])
           ELSE ExtScan(s, i - 1, startPart, [st EXCEPT !.preDotState = 1])
    ELSE IF st.startDot /= -1
           THEN ExtScan(s, i - 1, startPart, [st EXCEPT !.preDotState = -1])
           ELSE ExtScan(s, i - 1, startPart, st)

\* path.extname (posix): the extension of the last component of the path, from its
\* last "." on; empty for a component with no ".", one that starts with its only
\* ".", and "..".
extname(s) ==
  LET end == LastNonSlash(s, Len(s))
      startPart == PartStart(s, end)
      st == ExtScan(s, end, startPart, [startDot |-> -1, preDotState |-> 0])
  IN IF \/ st.startDot = -1
        \/ end = 0
        \/ st.preDotState = 0
        \/ (st.preDotState = 1 /\ st.startDot = end /\ st.startDot = startPart + 1)
       THEN <<>>
       ELSE SubSeq(s, st.startDot, end)

\* The "/"-separated segments of s, empty ones included.
RECURSIVE Segments(_, _, _)
Segments(s, i, cur) ==
  IF i > Len(s) THEN <<cur>>
  ELSE IF s[i] = "/" THEN <<cur>> \o Segments(s, i + 1, <<>>)
  ELSE Segments(s, i + 1, Append(cur, s[i]))

\* path's normalizeString: "." and empty segments dropped, ".." dropping the
\* segment before it (or kept, when there is none and the path is relative).
RECURSIVE NormalizeSegments(_, _, _, _)
NormalizeSegments(segs, i, res, allowAboveRoot) ==
  IF i > Len(segs) THEN res
  ELSE LET seg == segs[i] IN
    IF seg = <<>> \/ seg = <<".">>
      THEN NormalizeSegments(segs, i + 1, res, allowAboveRoot)
    ELSE IF seg = <<".", ".">>
      THEN IF Len(res) > 0 /\ Last(res) /= <<".", ".">>
             THEN NormalizeSegments(segs, i + 1, Front(res), allowAboveRoot)
           ELSE IF allowAboveRoot
             THEN NormalizeSegments(segs, i + 1, Append(res, seg), allowAboveRoot)
           ELSE NormalizeSegments(segs, i + 1, res, allowAboveRoot)
    ELSE NormalizeSegments(segs, i + 1, Append(res, seg), allowAboveRoot)

RECURSIVE JoinSegments(_, _)
JoinSegments(segs, i) ==
  IF i > Len(segs) THEN <<>>
  ELSE IF i = Len(segs) THEN segs[i]
  ELSE segs[i] \o <<"/">> \o JoinSegments(segs, i + 1)

\* path.normalize (posix).
normalize(s) ==
  IF Len(s) = 0 THEN <<".">>
  ELSE LET isAbsolute == s[1] = "/"
           trailingSeparator == Last(s) = "/"
           body == JoinSegments(NormalizeSegments(Segments(s, 1, <<>>), 1, <<>>, ~isAbsolute), 1)
       IN IF Len(body) = 0
            THEN IF isAbsolute THEN <<"/">>
                 ELSE IF trailingSeparator THEN <<".", "/">> ELSE <<".">>
            ELSE (IF isAbsolute THEN <<"/">> ELSE <<>>) \o body
                   \o (IF trailingSeparator THEN <<"/">> ELSE <<>>)

\* path.join of two strings (posix): the non-empty ones joined by "/", normalized.
join(a, b) ==
  IF Len(a) = 0 /\ Len(b) = 0 THEN <<".">>
  ELSE IF Len(a) = 0 THEN normalize(b)
  ELSE IF Len(b) = 0 THEN normalize(a)
  ELSE normalize(a \o <<"/">> \o b)

\* path.dirname (posix): the path up to the "/" before its last component.
dirname(s) ==
  IF Len(s) = 0 THEN <<".">>
  ELSE LET hasRoot == s[1] = "/"
           e == LastNonSlash(s, Len(s))
           \* the "/" that ends the directory part (the scan stops above index 1)
           slash == IF e = 0 THEN 0 ELSE PartStart(s, e) - 1
       IN IF slash < 2 THEN (IF hasRoot THEN <<"/">> ELSE <<".">>)
          ELSE IF hasRoot /\ slash = 2 THEN <<"/", "/">>
          ELSE SubSeq(s, 1, slash - 1)

\* ---------------------------------------------------------------- dag-map

\* A vertex of the graph: its key, its value (Undefined until add gives one),
\* whether an edge leaves it, and the vertices with an edge into it, in the order
\* the edges were added.
NewVertex(key) == [key |-> key, val |-> Undefined, out |-> FALSE, incoming |-> <<>>]

\* The index of the vertex with this key, 0 when there is none.
VertexOf(vs, key) ==
  IF \E i \in 1..Len(vs) : vs[i].key = key
    THEN CHOOSE i \in 1..Len(vs) : vs[i].key = key
    ELSE 0

\* Vertices.add: the vertex with this key, appended when it is new.
VerticesAdd(vs, key) ==
  IF VertexOf(vs, key) /= 0 THEN vs ELSE Append(vs, NewVertex(key))

\* (a deliberately faulty variant: the first one pushed first, so that the last one is
\* popped first)
RECURSIVE PushIncomingForward(_, _, _, _, _)
PushIncomingForward(vs, flag, stack, v, i) ==
  IF i = 0 THEN stack
  ELSE LET index == vs[v].incoming[Len(vs[v].incoming) - i + 1] IN
    PushIncomingForward(vs, flag, IF flag[index] THEN stack ELSE Append(stack, index), v, i - 1)

\* Vertices.pushIncoming: the unflagged vertices with an edge into v pushed on the
\* stack, the last one first, so that the first one is popped first.
RECURSIVE PushIncoming(_, _, _, _, _)
PushIncoming(vs, flag, stack, v, i) ==
  IF i = 0 THEN stack
  ELSE LET index == vs[v].incoming[i] IN
    PushIncoming(vs, flag, IF flag[index] THEN stack ELSE Append(stack, index), v, i - 1)

\* No key: the search of a plain walk.
NoSearch == -1

\* Vertices.visit's loop: a depth-first walk along incoming edges with an explicit
\* stack (index: enter the vertex, -index: leave it). It stops with the path to
\* the vertex whose key is `search` when it meets one.
RECURSIVE VisitLoop(_, _, _, _)
VisitLoop(vs, search, stack, st) ==
  IF Len(stack) = 0 THEN st
  ELSE LET index == Last(stack)
           rest == Front(stack)
       IN IF index > 0
            THEN IF st.flag[index] THEN VisitLoop(vs, search, rest, st)
                 ELSE LET flag2 == [st.flag EXCEPT ![index] = TRUE]
                          entered == [st EXCEPT !.flag = flag2, !.path = Append(@, index)]
                      IN IF search = vs[index].key THEN entered
                         ELSE VisitLoop(vs, search,
                                        PushIncoming(vs, flag2, Append(rest, -index), index,
                                                     Len(vs[index].incoming)),
                                        entered)
            ELSE VisitLoop(vs, search, rest,
                           [st EXCEPT !.path = Front(@), !.result = Append(@, -index)])

\* Vertices.visit from vertex `start`, continuing the walk state st.
visit(vs, start, search, st) == VisitLoop(vs, search, <<start>>, st)

\* Vertices.reset: no vertex flagged, the path and the result empty.
reset(vs) == [flag |-> [i \in 1..Len(vs) |-> FALSE], path |-> <<>>, result |-> <<>>]

\* Vertices.check: whether the edge from vertex v to the vertex with key w closes
\* a cycle (the code throws "cycle detected" then): w is v, w has an edge into v,
\* or w is reached from v along incoming edges.
check(vs, v, w) ==
  IF vs[v].key = w THEN TRUE
  ELSE IF Len(vs[v].incoming) = 0 THEN FALSE
  ELSE IF \E i \in 1..Len(vs[v].incoming) : vs[vs[v].incoming[i]].key = w THEN TRUE
  ELSE Len(visit(vs, v, w, reset(vs)).path) > 0

\* Vertices.addEdge: the edge from v to w after the cycle check, once.
addEdge(g, v, w) ==
  IF g.cycle THEN g
  ELSE IF check(g.vs, v, g.vs[w].key) THEN [g EXCEPT !.cycle = TRUE]
  ELSE IF \E i \in 1..Len(g.vs[w].incoming) : g.vs[w].incoming[i] = v THEN g
  ELSE [g EXCEPT !.vs = [@ EXCEPT ![w].incoming = Append(@, v), ![v].out = TRUE]]

\* The loop of DAGMap.add over a before list: an edge from v to each name.
RECURSIVE AddBefore(_, _, _, _)
AddBefore(g, v, names, i) ==
  IF g.cycle \/ i > Len(names) THEN g
  ELSE LET vs2 == VerticesAdd(g.vs, names[i])
       IN AddBefore(addEdge([g EXCEPT !.vs = vs2], v, VertexOf(vs2, names[i])), v, names, i + 1)

\* The loop of DAGMap.add over an after list: an edge from each name to v.
RECURSIVE AddAfter(_, _, _, _)
AddAfter(g, v, names, i) ==
  IF g.cycle \/ i > Len(names) THEN g
  ELSE LET vs2 == VerticesAdd(g.vs, names[i])
       IN AddAfter(addEdge([g EXCEPT !.vs = vs2], VertexOf(vs2, names[i]), v), v, names, i + 1)

\* new DAGMap().
NewDAGMap == [vs |-> <<>>, cycle |-> FALSE]

\* DAGMap.add(key, value, before, after), before and after each an array of names
\* or Undefined; g.cycle when one of its edges threw.
DAGMapAdd(g, key, value, before, after) ==
  LET vs1 == VerticesAdd(g.vs, key)
      v == VertexOf(vs1, key)
      g1 == [g EXCEPT !.vs = [vs1 EXCEPT ![v].val = Def(value)]]
      g2 == IF before = Undefined THEN g1 ELSE AddBefore(g1, v, Val(before), 1)
  IN IF after = Undefined THEN g2 ELSE AddAfter(g2, v, Val(after), 1)

\* Vertices.walk's loop: a visit from every vertex that no edge leaves, in the
\* order the vertices were created.
RECURSIVE WalkFrom(_, _, _)
WalkFrom(vs, i, st) ==
  IF i > Len(vs) THEN st
  ELSE IF vs[i].out THEN WalkFrom(vs, i + 1, st)
  ELSE WalkFrom(vs, i + 1, visit(vs, i, NoSearch, st))

\* DAGMap.each: the (key, value) pairs the callback is called with, in order.
DAGMapEach(g) ==
  LET result == WalkFrom(g.vs, 1, reset(g.vs)).result
  IN [i \in 1..Len(result) |-> [key |-> g.vs[result[i]].key, val |-> g.vs[result[i]].val]]

\* ------------------------------------------------------------------ state

VARIABLES
  world,      \* what the call is given and what it finds on disk; never written
  addonInfo,  \* the addon packages ({name, path, pkg}), by object identity
  status,     \* "idle", "running", "returned" or "threw": the outermost call
  stack,      \* the frames of the instantiateAddons calls in progress, innermost last
  result,     \* the array the outermost call returned
  exc,        \* the error in flight or thrown by the outermost call, or Undefined
  ctors,      \* the addon constructors made so far (functions, with prototype and _meta_)
  heap,       \* the addon instances made so far
  uiLog,      \* the errors written to a parent's ui, in order
  trace,      \* what was done for which package, in order
  clock       \* Date.now()

vars == <<world, addonInfo, status, stack, result, exc, ctors, heap, uiLog, trace, clock>>

\* The parent the outermost call is made for (a project or an addon made elsewhere).
RootParent == 0

\* An error: its kind, and the package name and the path it names.
Error(kind, name, path) == [kind |-> kind, name |-> name, path |-> path]

\* ------------------------------------------------------- entry point (70-83)

\* Whether a string property is truthy: defined and not "".
Truthy(m) == m /= Undefined /\ Val(m) /= <<>>

\* (a deliberately faulty variant: pkg.main taking precedence)
DeclaredMainTopFirst(pkg) ==
  IF Truthy(pkg.main) \/ pkg.emberAddon = Undefined THEN pkg.main
  ELSE Val(pkg.emberAddon).main

\* Line 71: pkg['ember-addon'].main when there is a truthy one, else pkg.main.
DeclaredMain(pkg) ==
  IF pkg.emberAddon /= Undefined /\ Truthy(Val(pkg.emberAddon).main)
    THEN Val(pkg.emberAddon).main
    ELSE pkg.main

\* Lines 71-77: the entry point's name within the package.
EntryPoint(pkg) ==
  LET main == DeclaredMain(pkg) IN
  IF ~Truthy(main) \/ Val(main) = <<".">> \/ Val(main) = <<".", "/">> THEN IndexJs
  ELSE IF extname(Val(main)) = <<>> THEN Val(main) \o DotJs
  ELSE Val(main)

\* (a deliberately faulty variant: the entry point written to 'ember-addon'.main as well)
WithBothMains(info) ==
  [info EXCEPT !.pkg.main = Def(EntryPoint(info.pkg)),
               !.pkg.emberAddon = IF @ = Undefined THEN @
                                  ELSE Def([Val(@) EXCEPT !.main = Def(EntryPoint(info.pkg))])]

\* (a deliberately faulty variant: line 80 writing a new 'ember-addon' record that holds
\* the entry point and nothing else)
WithMainOnly(info) ==
  [info EXCEPT !.pkg.main = Def(EntryPoint(info.pkg)),
               !.pkg.emberAddon = Def([main |-> Def(EntryPoint(info.pkg)),
                                       before |-> Undefined, after |-> Undefined])]

\* Line 80: the package with the entry point written to its pkg.main.
WithMain(info) == [info EXCEPT !.pkg.main = Def(EntryPoint(info.pkg))]

\* Line 82: the entry point's path.
MainPath(info) == join(info.path, EntryPoint(info.pkg))

\* fs.realpathSync: whether it throws (no such file), and the path it returns
\* (that of the file a link leads to).
\* (a deliberately faulty variant: a missing file goes unnoticed, as if realpathSync
\* returned nothing instead of throwing)
ExistsUnchecked(w, path) == TRUE

Exists(w, path) == path \notin w.missing

RealPath(w, path) == IF path \in DOMAIN w.links THEN w.links[path] ELSE path

\* ------------------------------------------------ entering a call (27-53)

\* Lines 45-50: the packages added to the graph in the order of their names. The
\* outcome is the graph, or the error that ended the loop: a TypeError for a
\* package with no 'ember-addon' (line 49 reads .before of undefined), dag-map's
\* "cycle detected" for an edge that closes a cycle.
\* (a deliberately faulty variant: line 49 with before and after swapped)
RECURSIVE BuildGraphSwapped(_, _, _, _)
BuildGraphSwapped(infos, packages, i, g) ==
  IF i > Len(packages) THEN [graph |-> g, error |-> Undefined]
  ELSE LET info == infos[packages[i]]
           emberAddonConfig == info.pkg.emberAddon
       IN IF emberAddonConfig = Undefined
            THEN [graph |-> g, error |-> Def(Error("TypeError", info.name, <<>>))]
          ELSE LET g2 == DAGMapAdd(g, info.name, packages[i],
                                   Val(emberAddonConfig).after, Val(emberAddonConfig).before)
               IN IF g2.cycle
                    THEN [graph |-> g2, error |-> Def(Error("CycleError", info.name, <<>>))]
                    ELSE BuildGraphSwapped(infos, packages, i + 1, g2)

\* (a deliberately faulty variant: an add that throws is caught and the package left out
\* of the graph)
RECURSIVE BuildGraphCatching(_, _, _, _)
BuildGraphCatching(infos, packages, i, g) ==
  IF i > Len(packages) THEN [graph |-> g, error |-> Undefined]
  ELSE LET info == infos[packages[i]]
           emberAddonConfig == info.pkg.emberAddon
       IN IF emberAddonConfig = Undefined
            THEN [graph |-> g, error |-> Def(Error("TypeError", info.name, <<>>))]
          ELSE LET g2 == DAGMapAdd(g, info.name, packages[i],
                                   Val(emberAddonConfig).before, Val(emberAddonConfig).after)
               IN BuildGraphCatching(infos, packages, i + 1, IF g2.cycle THEN g ELSE g2)

RECURSIVE BuildGraph(_, _, _, _)
BuildGraph(infos, packages, i, g) ==
  IF i > Len(packages) THEN [graph |-> g, error |-> Undefined]
  ELSE LET info == infos[packages[i]]
           emberAddonConfig == info.pkg.emberAddon
       IN IF emberAddonConfig = Undefined
            THEN [graph |-> g, error |-> Def(Error("TypeError", info.name, <<>>))]
          ELSE LET g2 == DAGMapAdd(g, info.name, packages[i],
                                   Val(emberAddonConfig).before, Val(emberAddonConfig).after)
               IN IF g2.cycle
                    THEN [graph |-> g2, error |-> Def(Error("CycleError", info.name, <<>>))]
                    ELSE BuildGraph(infos, packages, i + 1, g2)

\* A frame of instantiateAddons at line 53: the order graph.each calls back in, the
\* entry it is at, the addons made so far, and the locals of the entry under way.
NewFrame(parent, order) ==
  [parent |-> parent, order |-> order, i |-> 1, addons |-> <<>>, pc |-> "each",
   start |-> 0, mainPath |-> <<>>, mainRealPath |-> <<>>, AddonConstructor |-> 0, e |-> Undefined, addon |-> 0]

\* (a deliberately faulty variant: lines 35-37 left out)
EnterWithoutEmptyCheck(infos, parent, addonPackages) ==
  LET addonNames == IF addonPackages = Undefined THEN <<>> ELSE Val(addonPackages)
      built == BuildGraph(infos, addonNames, 1, NewDAGMap)
  IN IF built.error /= Undefined
       THEN [kind |-> "threw", error |-> built.error, frame |-> NewFrame(parent, <<>>)]
       ELSE [kind |-> "frame", error |-> Undefined, frame |-> NewFrame(parent, DAGMapEach(built.graph))]

\* Lines 27-53 for a parent and its addonPackages (an array of package ids in key
\* order, or Undefined): "empty" (line 37 returns []), "threw" with the error of
\* the graph's construction, or "frame" with the frame that iterates the order.
Enter(infos, parent, addonPackages) ==
  LET addonNames == IF addonPackages = Undefined THEN <<>> ELSE Val(addonPackages) IN
  IF Len(addonNames) = 0 THEN [kind |-> "empty", error |-> Undefined, frame |-> NewFrame(parent, <<>>)]
  ELSE LET built == BuildGraph(infos, addonNames, 1, NewDAGMap) IN
    IF built.error /= Undefined
      THEN [kind |-> "threw", error |-> built.error, frame |-> NewFrame(parent, <<>>)]
      ELSE [kind |-> "frame", error |-> Undefined, frame |-> NewFrame(parent, DAGMapEach(built.graph))]

\* ----------------------------------------------------------------- worlds

\* The elements of a set of numbers as an ascending sequence.
RECURSIVE Ascending(_)
Ascending(S) ==
  IF S = {} THEN <<>>
  ELSE LET m == CHOOSE x \in S : \A y \in S : x <= y
       IN <<m>> \o Ascending(S \ {m})

\* The subsets of D with at most k elements.
RECURSIVE SubsetsUpTo(_, _)
SubsetsUpTo(D, k) ==
  IF k = 0 THEN {{}}
  ELSE LET S == SubsetsUpTo(D, k - 1) IN S \cup {s \cup {x} : s \in S, x \in D}

\* The strings of at most n characters.
RECURSIVE Strings(_)
Strings(n) ==
  IF n = 0 THEN {<<>>}
  ELSE LET S == Strings(n - 1) IN S \cup {Append(t, c) : t \in S, c \in Chars}

\* The directory of the package with this id, and its index.js.
PathOf(id) == <<"/", Digit[id]>>

IndexOf(id) == PathOf(id) \o <<"/">> \o IndexJs

\* A name list as a manifest holds it: an array, or nothing for no names.
NameList(S) == IF S = {} THEN Undefined ELSE Def(Ascending(S))

\* A before/after entry of a package's manifest: `owner` is to come before or
\* after `target`, which is any name, the owner's own and an unknown one included.
Declarations(n) == [owner : 1..n, kind : {"before", "after"}, target : 0..n]

\* The 'ember-addon' record of package id under the declarations C.
ConfigOf(id, C, main) ==
  [main |-> main,
   before |-> NameList({c.target : c \in {x \in C : x.owner = id /\ x.kind = "before"}}),
   after |-> NameList({c.target : c \in {x \in C : x.owner = id /\ x.kind = "after"}})]

\* The package with this id (which is its name too) under the declarations C.
InfoOf(id, C) ==
  [name |-> id, path |-> PathOf(id),
   pkg |-> [main |-> Undefined, emberAddon |-> Def(ConfigOf(id, C, Undefined))]]

NoLinks == [path \in {} |-> path]

\* The world of a call for the root parent with these packages (ids 1..Len(infos)
\* are the keys of the mapping, in order): every entry point exists, every module
\* is an object, no addon has packages of its own, and the parent has a ui.
PlainWorld(infos) ==
  [addonInfo |-> infos,
   addonPackages |-> Def([i \in 1..Len(infos) |-> i]),
   children |-> [d \in 1..Len(infos) |-> <<>>],
   missing |-> {}, links |-> NoLinks, throwing |-> {}, callable |-> {}, preset |-> {},
   blank |-> {}, bare |-> {}, ui |-> {RootParent}]

\* Worlds that differ in the ordering constraints: up to MaxAddons packages with up
\* to MaxConstraints before/after entries in all, and the rings of before (or of
\* after) entries through all the packages; and the calls with no mapping.
Ring(n, kind) == {[owner |-> i, kind |-> kind, target |-> (i % n) + 1] : i \in 1..n}

Chain(n, kind) == {[owner |-> i, kind |-> kind, target |-> i + 1] : i \in 1..(n - 1)}

OrderingWorld(w) ==
  \/ w = [PlainWorld(<<>>) EXCEPT !.addonPackages = Undefined]
  \/ \E n \in 0..MaxAddons, C \in SubsetsUpTo(Declarations(MaxAddons), MaxConstraints) :
       w = PlainWorld([i \in 1..n |-> InfoOf(i, C)])
  \/ \E n \in 1..MaxAddons,
        C \in {Ring(MaxAddons, "before"), Ring(MaxAddons, "after"),
               Chain(MaxAddons, "before"), Chain(MaxAddons, "after")} :
       w = PlainWorld([i \in 1..n |-> InfoOf(i, C)])

\* Worlds that differ in what fails: the entry points of some packages do not
\* exist, the constructors of others throw; the parent has a ui or none; the
\* modules are objects or functions; the packages come in the order of their names
\* or, each after the next one, in the opposite order.
FailureWorld(w) ==
  \E n \in 1..MaxAddons, C \in {{}, Chain(MaxAddons, "after")},
     M \in SUBSET (1..MaxAddons), T \in SUBSET (1..MaxAddons),
     F \in {{}, 1..MaxAddons}, U \in {{}, {RootParent}} :
    w = [PlainWorld([i \in 1..n |-> InfoOf(i, C)]) EXCEPT
           !.missing = {IndexOf(i) : i \in M},
           !.throwing = {IndexOf(i) : i \in T},
           !.callable = {IndexOf(i) : i \in F},
           !.ui = U]

\* The main strings of a manifest: none, or any string of the characters.
Mains == {Undefined} \cup {Def(str) : str \in Strings(MaxMainLen)}

\* A few of them.
SomeMains == {Undefined, Def(<<>>), Def(<<".">>), Def(<<"a">>), Def(<<"a", ".", "a">>),
              Def(<<"a", "/", "a">>)}

\* The package with this id whose manifest has this main and this 'ember-addon'.
ManifestOf(id, main, emberAddon) ==
  [name |-> id, path |-> PathOf(id), pkg |-> [main |-> main, emberAddon |-> emberAddon]]

NoOrdering(main) == Def([main |-> main, before |-> Undefined, after |-> Undefined])

\* Worlds that differ in the manifests: one package with any main and a few
\* 'ember-addon' mains or the other way round; and packages some of which have no
\* 'ember-addon' at all, with no constraints or in a ring.
ManifestWorld(w) ==
  \/ \E main \in Mains, eaMain \in SomeMains :
       w = PlainWorld(<<ManifestOf(1, main, NoOrdering(eaMain))>>)
  \/ \E main \in SomeMains, eaMain \in Mains :
       w = PlainWorld(<<ManifestOf(1, main, NoOrdering(eaMain))>>)
  \/ \E n \in 1..MaxAddons, P \in (SUBSET (1..MaxAddons)) \ {{}},
        C \in {{}, Ring(MaxAddons, "before")}, main \in SomeMains :
       w = PlainWorld([i \in 1..n |->
                         IF i \in P THEN ManifestOf(i, main, Undefined) ELSE InfoOf(i, C)])

\* Worlds with nested addons: `width` packages for the root parent, of which the
\* addon of package `carrier` has a package of its own, whose addon has one, and
\* so on `depth` levels down. One package (or none) fails: its entry point does
\* not exist, its constructor throws, it has no 'ember-addon', or it is to come
\* before itself. No parent, the root parent, or every parent has a ui; the
\* modules are objects, or functions, or functions of which the innermost makes
\* addons with no initializeAddons.
NestedInfo(id, failing, mode) ==
  IF id = failing /\ mode = "noconfig" THEN ManifestOf(id, Undefined, Undefined)
  ELSE IF id = failing /\ mode = "cycle"
    THEN InfoOf(id, {[owner |-> id, kind |-> "before", target |-> id]})
  ELSE InfoOf(id, {})

NestedWorld(width, carrier, depth, failing, mode, U, style) ==
  LET ids == 1..(width + depth) IN
  [addonInfo |-> [id \in ids |-> NestedInfo(id, failing, mode)],
   addonPackages |-> Def([i \in 1..width |-> i]),
   children |-> [id \in ids |->
                   IF id = carrier /\ depth > 0 THEN <<width + 1>>
                   ELSE IF id > width /\ id < width + depth THEN <<id + 1>>
                   ELSE <<>>],
   missing |-> IF mode = "missing" THEN {IndexOf(failing)} ELSE {},
   links |-> NoLinks,
   throwing |-> IF mode = "throw" THEN {IndexOf(failing)} ELSE {},
   callable |-> IF style = "object" THEN {} ELSE {IndexOf(id) : id \in ids},
   preset |-> {},
   blank |-> {},
   bare |-> IF style = "bare" THEN {IndexOf(width + depth)} ELSE {},
   ui |-> U]

NestedWorldOf(w) ==
  \E width \in 1..2, carrier \in 1..2, depth \in 1..MaxDepth,
     failing \in 1..(2 + MaxDepth), mode \in {"none", "missing", "throw", "noconfig", "cycle"},
     U \in {{}, {RootParent}, 0..(2 + MaxDepth)}, style \in {"object", "function", "bare"} :
    w = NestedWorld(width, carrier, depth, failing, mode, U, style)

\* Worlds in which packages share a module: `width` packages for the root parent,
\* the first with `depth` levels of nested packages below it, and the entry points
\* of the packages L are links to the entry point of the first. The modules are
\* objects or functions, which set no root and pkg of their own, or set both, or
\* set their root to "".
SharedWorld(width, depth, L, style, own) ==
  LET ids == 1..(width + depth) IN
  [NestedWorld(width, 1, depth, 0, "none", {RootParent}, style) EXCEPT
     !.links = [path \in {IndexOf(id) : id \in L} |-> IndexOf(1)],
     !.preset = IF own = "own" THEN {IndexOf(id) : id \in ids} ELSE {},
     !.blank = IF own = "blank" THEN {IndexOf(id) : id \in ids} ELSE {}]

SharedWorldOf(w) ==
  \E width \in 1..2, depth \in 0..MaxDepth, style \in {"object", "function"},
     own \in {"none", "own", "blank"} :
    \E L \in SUBSET (2..(width + depth)) :
      w = SharedWorld(width, depth, L, style, own)

\* ---------------------------------------------------------------- actions

Top == stack[Len(stack)]

\* The package the top frame's entry is for (the value graph.each passes).
CurrentInfo == Val(Top.order[Top.i].val)

\* The top frame is running and no error is in flight.
Running == status = "running" /\ exc = Undefined /\ Len(stack) > 0

Event(op, id) == [op |-> op, id |-> id]

\* The top frame replaced by f.
SetTop(f) == [stack EXCEPT ![Len(stack)] = f]

\* A throw out of the top frame: the frame is left, and the error reaches the
\* caller of the outermost call when that was the last one.
Throw(error) ==
  /\ exc' = Def(error)
  /\ stack' = Front(stack)
  /\ status' = IF Len(stack) = 1 THEN "threw" ELSE status

\* (a deliberately faulty variant: the guard of line 115 left out)
HasUiUnguarded(parent) == TRUE

\* Whether the parent of a call (the root parent, or an addon instance) has a ui.
HasUi(parent) ==
  IF parent = RootParent THEN RootParent \in world.ui ELSE heap[parent].info \in world.ui

\* Lines 27-53 of the outermost call: instantiateAddons(parent, project, addonPackages).
Call ==
  /\ status = "idle"
  /\ LET entered == Enter(addonInfo, RootParent, world.addonPackages) IN
       /\ status' = CASE entered.kind = "empty" -> "returned"
                      [] entered.kind = "threw" -> "threw"
                      [] OTHER -> "running"
       /\ exc' = entered.error
       /\ stack' = IF entered.kind = "frame" THEN <<entered.frame>> ELSE <<>>
       /\ trace' = IF entered.kind = "empty" THEN trace
                   ELSE Append(trace, Event("graph", RootParent))
  /\ result' = <<>>
  /\ clock' = clock + 1
  /\ UNCHANGED <<world, addonInfo, ctors, heap, uiLog>>

\* Line 54: graph.each calls back for a name that no package has (it only occurs
\* in before/after lists), and the callback does nothing.
Skip ==
  /\ Running /\ Top.pc = "each" /\ Top.i <= Len(Top.order)
  /\ Top.order[Top.i].val = Undefined
  /\ stack' = SetTop([Top EXCEPT !.i = @ + 1])
  /\ clock' = clock + 1
  /\ UNCHANGED <<world, addonInfo, status, result, exc, ctors, heap, uiLog, trace>>

\* Lines 54-83: the entry point is chosen, written to pkg.main and resolved;
\* fs.realpathSync throws when there is no such file.
Resolve ==
  /\ Running /\ Top.pc = "each" /\ Top.i <= Len(Top.order)
  /\ Top.order[Top.i].val /= Undefined
  /\ LET info == addonInfo[CurrentInfo]
         mainPath == MainPath(info)
     IN /\ addonInfo' = [addonInfo EXCEPT ![CurrentInfo] = WithMain(info)]
        /\ IF Exists(world, mainPath)
             THEN /\ stack' = SetTop([Top EXCEPT !.pc = "resolved", !.start = clock,
                                                 !.mainPath = mainPath,
                                                 !.mainRealPath = RealPath(world, mainPath)])
                  /\ UNCHANGED <<status, exc>>
             ELSE Throw(Error("ENOENT", 0, mainPath))
  /\ trace' = Append(trace, Event("resolve", CurrentInfo))
  /\ clock' = clock + 1
  /\ UNCHANGED <<world, result, ctors, heap, uiLog>>

\* The constructor that is the module function at this path, 0 when the module has
\* not been required as a function before.
ModuleFunction(cs, path) ==
  IF \E c \in 1..Len(cs) : cs[c].fn /\ cs[c].path = path
    THEN CHOOSE c \in 1..Len(cs) : cs[c].fn /\ cs[c].path = path
    ELSE 0

\* The root and the pkg a module sets itself (world.preset), or the root "" it sets
\* (world.blank).
OwnRoot == <<"/", "o", "w", "n">>

OwnPkg == 0

\* Lines 104-108: a new _meta_ object.
NewMeta(id, mainRealPath) ==
  [id |-> id, modulePath |-> mainRealPath, lookupDuration |-> 0, initializeIn |-> 0, writes |-> 0]

\* What require(mainRealPath) evaluates to the first time: the module's function or
\* object with the root and pkg it sets itself, if any.
LoadedModule(w, mainRealPath) ==
  [path |-> mainRealPath,
   fn |-> mainRealPath \in w.callable,
   root |-> IF mainRealPath \in w.preset THEN Def(OwnRoot)
            ELSE IF mainRealPath \in w.blank THEN Def(<<>>)
            ELSE Undefined,
   pkg |-> IF mainRealPath \in w.preset THEN Def(OwnPkg) ELSE Undefined,
   meta |-> Undefined]

\* (a deliberately faulty variant: lines 96-97 assigning the defaults whatever is there)
ConstructorsOverwriting(w, cs, info, mainRealPath, now) ==
  LET addonModule == LoadedModule(w, mainRealPath)
      known == ModuleFunction(cs, mainRealPath)
      c == IF addonModule.fn /\ known /= 0 THEN known ELSE Len(cs) + 1
      before == IF c <= Len(cs) THEN cs[c] ELSE addonModule
      made == [before EXCEPT !.root = Def(dirname(mainRealPath)),
                             !.pkg = Def(info),
                             !.meta = Def(NewMeta(now, mainRealPath))]
  IN IF c <= Len(cs) THEN [cs EXCEPT ![c] = made] ELSE Append(cs, made)

\* Lines 93-108: the constructors after the module at mainRealPath is required for
\* package `info`. A function is used as it is (once required, the same function
\* again), its prototype's root and pkg set unless they are truthy (.. || ..: a
\* root of "" counts as not set); an object (whose own properties win, whatever
\* they are) is passed to
\* Addon.extend over the defaults {root, pkg}, which makes a new constructor. Either
\* gets a new _meta_.
Constructors(w, cs, info, mainRealPath, now) ==
  LET mainDir == dirname(mainRealPath)
      addonModule == LoadedModule(w, mainRealPath)
      known == ModuleFunction(cs, mainRealPath)
      c == IF addonModule.fn /\ known /= 0 THEN known ELSE Len(cs) + 1
      before == IF c <= Len(cs) THEN cs[c] ELSE addonModule
      made == [before EXCEPT !.root = IF (IF before.fn THEN Truthy(@) ELSE @ /= Undefined)
                                        THEN @ ELSE Def(mainDir),
                             !.pkg = IF @ /= Undefined THEN @ ELSE Def(info),
                             !.meta = Def(NewMeta(now, mainRealPath))]
  IN IF c <= Len(cs) THEN [cs EXCEPT ![c] = made] ELSE Append(cs, made)

\* The constructor lines 93-102 choose: the module function, or the one just made.
ChosenConstructor(w, cs, mainRealPath) ==
  LET known == ModuleFunction(cs, mainRealPath) IN
  IF mainRealPath \in w.callable /\ known /= 0 THEN known ELSE Len(cs) + 1

\* Lines 90-108: the module is required and its constructor prepared.
Require ==
  /\ Running /\ Top.pc = "resolved"
  /\ ctors' = Constructors(world, ctors, CurrentInfo, Top.mainRealPath, clock)
  /\ stack' = SetTop([Top EXCEPT !.pc = "loaded",
                                 !.AddonConstructor = ChosenConstructor(world, ctors, Top.mainRealPath)])
  /\ trace' = Append(trace, Event("require", CurrentInfo))
  /\ clock' = clock + 1
  /\ UNCHANGED <<world, addonInfo, status, result, exc, heap, uiLog>>

\* An addon instance just constructed.
NewAddon(info, parent, c) ==
  [info |-> info, parent |-> parent, builtBy |-> c, constructor |-> Undefined,
   addons |-> Undefined, initCalls |-> 0]

\* Lines 112-114: new AddonConstructor(parent, project), which may throw.
Construct ==
  /\ Running /\ Top.pc = "loaded"
  /\ IF Top.mainRealPath \in world.throwing
       THEN /\ stack' = SetTop([Top EXCEPT !.pc = "caught",
                                           !.e = Def(Error("Thrown", addonInfo[CurrentInfo].name,
                                                           Top.mainRealPath))])
            /\ heap' = heap
       ELSE /\ heap' = Append(heap, NewAddon(CurrentInfo, Top.parent, Top.AddonConstructor))
            /\ stack' = SetTop([Top EXCEPT !.pc = "constructed", !.addon = Len(heap) + 1])
  /\ trace' = Append(trace, Event("new", CurrentInfo))
  /\ clock' = clock + 1
  /\ UNCHANGED <<world, addonInfo, status, result, exc, ctors, uiLog>>

\* Lines 115-117: the caught error is written to the parent's ui, if it has one.
WriteError ==
  /\ Running /\ Top.pc = "caught"
  /\ uiLog' = IF HasUi(Top.parent)
                THEN Append(uiLog, [parent |-> Top.parent, error |-> Val(Top.e)])
                ELSE uiLog
  /\ stack' = SetTop([Top EXCEPT !.pc = "reported"])
  /\ clock' = clock + 1
  /\ UNCHANGED <<world, addonInfo, status, result, exc, ctors, heap, trace>>

\* (a deliberately faulty variant: the error is swallowed and the next package is gone on to)
ContinueAfterError ==
  /\ status = "running" /\ exc = Undefined /\ Len(stack) > 0 /\ stack[Len(stack)].pc = "reported"
  /\ stack' = [stack EXCEPT ![Len(stack)] =
                 [NewFrame(@.parent, @.order) EXCEPT !.i = stack[Len(stack)].i + 1,
                                                      !.addons = stack[Len(stack)].addons]]
  /\ clock' = clock + 1
  /\ UNCHANGED <<world, addonInfo, status, result, exc, ctors, heap, uiLog, trace>>

\* Line 118: the SilentError that names the package and its path is thrown.
ThrowSilentError ==
  /\ Running /\ Top.pc = "reported"
  /\ Throw(Error("SilentError", addonInfo[CurrentInfo].name, addonInfo[CurrentInfo].path))
  /\ clock' = clock + 1
  /\ UNCHANGED <<world, addonInfo, result, ctors, heap, uiLog, trace>>

\* Addon#initializeAddons as far as the call it makes: instantiateAddons for the
\* addon (the new parent) and the packages the addon has of its own.
NestedCall(infos, w, addon, info) == Enter(infos, addon, Def(w.children[info]))

\* (a deliberately faulty variant: initializeAddons is counted as called but the addon's
\* own packages are left for later)
InitializeAddonsSkipping ==
  /\ status = "running" /\ exc = Undefined /\ Len(stack) > 0
  /\ stack[Len(stack)].pc = "constructed"
  /\ heap' = [heap EXCEPT ![stack[Len(stack)].addon].initCalls = @ + 1,
                          ![stack[Len(stack)].addon].addons = Def(<<>>)]
  /\ stack' = [stack EXCEPT ![Len(stack)].pc = "initialized"]
  /\ trace' = Append(trace, [op |-> "init", id |-> Val(stack[Len(stack)].order[stack[Len(stack)].i].val)])
  /\ clock' = clock + 1
  /\ UNCHANGED <<world, addonInfo, status, result, exc, ctors, uiLog>>

\* Lines 121-125: the new addon's initializeAddons is called when it has one, which
\* calls instantiateAddons for the addon and its own packages and keeps what it
\* returns as the addon's addons; an addon without one gets addons = [].
InitializeAddons ==
  /\ Running /\ Top.pc = "constructed"
  /\ IF Top.mainRealPath \in world.bare
       THEN /\ heap' = [heap EXCEPT ![Top.addon].addons = Def(<<>>)]
            /\ stack' = SetTop([Top EXCEPT !.pc = "initialized"])
            /\ UNCHANGED <<exc, trace>>
       ELSE LET entered == NestedCall(addonInfo, world, Top.addon, CurrentInfo) IN
            /\ heap' = [heap EXCEPT ![Top.addon].initCalls = @ + 1,
                                    ![Top.addon].addons =
                                       IF entered.kind = "empty" THEN Def(<<>>) ELSE @]
            /\ exc' = entered.error
            /\ stack' = CASE entered.kind = "empty" -> SetTop([Top EXCEPT !.pc = "initialized"])
                          [] entered.kind = "threw" -> stack
                          [] OTHER -> Append(SetTop([Top EXCEPT !.pc = "initializing"]),
                                             entered.frame)
            /\ trace' = IF entered.kind = "empty" THEN Append(trace, Event("init", CurrentInfo))
                        ELSE trace \o <<Event("init", CurrentInfo), Event("graph", Top.addon)>>
  /\ clock' = clock + 1
  /\ UNCHANGED <<world, addonInfo, status, result, ctors, uiLog>>

\* (a deliberately faulty variant: line 128 left out)
FinishWithoutConstructor ==
  /\ status = "running" /\ exc = Undefined /\ Len(stack) > 0
  /\ stack[Len(stack)].pc = "initialized"
  /\ ctors' = [ctors EXCEPT ![stack[Len(stack)].AddonConstructor].meta =
                 Def([Val(@) EXCEPT !.initializeIn = clock - stack[Len(stack)].start,
                                    !.writes = @ + 1])]
  /\ stack' = [stack EXCEPT ![Len(stack)] =
                 [NewFrame(@.parent, @.order) EXCEPT
                    !.i = stack[Len(stack)].i + 1,
                    !.addons = Append(stack[Len(stack)].addons, stack[Len(stack)].addon)]]
  /\ trace' = Append(trace, [op |-> "push",
                             id |-> Val(stack[Len(stack)].order[stack[Len(stack)].i].val)])
  /\ clock' = clock + 1
  /\ UNCHANGED <<world, addonInfo, status, result, exc, heap, uiLog>>

\* Lines 127-131: the time taken is written to the constructor's _meta_, the
\* constructor to the addon, and the addon is pushed; the locals of the entry end.
Finish ==
  /\ Running /\ Top.pc = "initialized"
  /\ ctors' = [ctors EXCEPT ![Top.AddonConstructor].meta =
                 Def([Val(@) EXCEPT !.initializeIn = clock - Top.start, !.writes = @ + 1])]
  /\ heap' = [heap EXCEPT ![Top.addon].constructor = Def(Top.AddonConstructor)]
  /\ stack' = SetTop([NewFrame(Top.parent, Top.order) EXCEPT
                        !.i = Top.i + 1, !.addons = Append(Top.addons, Top.addon)])
  /\ trace' = Append(trace, Event("push", CurrentInfo))
  /\ clock' = clock + 1
  /\ UNCHANGED <<world, addonInfo, status, result, exc, uiLog>>

\* Lines 135-148: graph.each is over and the addons are returned, to the caller of
\* the outermost call or to the initializeAddons that made the call.
Return ==
  /\ Running /\ Top.pc = "each" /\ Top.i > Len(Top.order)
  /\ IF Len(stack) = 1
       THEN /\ status' = "returned"
            /\ result' = Top.addons
            /\ stack' = <<>>
            /\ heap' = heap
       ELSE LET caller == stack[Len(stack) - 1] IN
            /\ heap' = [heap EXCEPT ![caller.addon].addons = Def(Top.addons)]
            /\ stack' = [Front(stack) EXCEPT ![Len(stack) - 1].pc = "initialized"]
            /\ UNCHANGED <<status, result>>
  /\ clock' = clock + 1
  /\ UNCHANGED <<world, addonInfo, exc, ctors, uiLog, trace>>

\* (a deliberately faulty variant: line 122 inside the try, so that every enclosing call
\* writes the error to its parent's ui on the way out)
PropagateReporting ==
  /\ status = "running" /\ exc /= Undefined /\ Len(stack) > 0
  /\ uiLog' = IF HasUi(stack[Len(stack)].parent)
                THEN Append(uiLog, [parent |-> stack[Len(stack)].parent, error |-> Val(exc)])
                ELSE uiLog
  /\ stack' = Front(stack)
  /\ status' = IF Len(stack) = 1 THEN "threw" ELSE status
  /\ clock' = clock + 1
  /\ UNCHANGED <<world, addonInfo, result, exc, ctors, heap, trace>>

\* An error thrown inside an addon's initializeAddons (line 122, outside the try)
\* leaves the frame that called it: nothing catches it.
Propagate ==
  /\ status = "running" /\ exc /= Undefined /\ Len(stack) > 0
  /\ stack' = Front(stack)
  /\ status' = IF Len(stack) = 1 THEN "threw" ELSE status
  /\ clock' = clock + 1
  /\ UNCHANGED <<world, addonInfo, result, exc, ctors, heap, uiLog, trace>>

Next ==
  \/ Call
  \/ Skip
  \/ Resolve
  \/ Require
  \/ Construct
  \/ WriteError
  \/ ThrowSilentError
  \/ InitializeAddons
  \/ Finish
  \/ Return
  \/ Propagate

\* Before the call: the packages as package discovery made them, nothing else.
Init ==
  /\ \/ OrderingWorld(world)
     \/ FailureWorld(world)
     \/ ManifestWorld(world)
     \/ NestedWorldOf(world)
     \/ SharedWorldOf(world)
  /\ addonInfo = world.addonInfo
  /\ status = "idle"
  /\ stack = <<>>
  /\ result = <<>>
  /\ exc = Undefined
  /\ ctors = <<>>
  /\ heap = <<>>
  /\ uiLog = <<>>
  /\ trace = <<>>
  /\ clock = 0

Spec == Init /\ [][Next]_vars

\* ------------------------------------------------------------ a second call

\* Whether the outermost call has been made a second time.
Repeated == \E p \in 1..Len(trace) : trace[p].op = "again"

\* Lines 27-53 once more: the caller calls instantiateAddons again with the same
\* parent and the same addonPackages object after the first call returned or
\* threw. The packages (with what line 80 wrote to them), the modules required
\* and the addons made are as the first call left them.
CallAgain ==
  /\ status \in {"returned", "threw"} /\ ~Repeated
  /\ LET entered == Enter(addonInfo, RootParent, world.addonPackages) IN
       /\ status' = CASE entered.kind = "empty" -> "returned"
                      [] entered.kind = "threw" -> "threw"
                      [] OTHER -> "running"
       /\ exc' = entered.error
       /\ stack' = IF entered.kind = "frame" THEN <<entered.frame>> ELSE <<>>
       /\ trace' = IF entered.kind = "empty" THEN Append(trace, Event("again", RootParent))
                   ELSE trace \o <<Event("again", RootParent), Event("graph", RootParent)>>
  /\ result' = <<>>
  /\ clock' = clock + 1
  /\ UNCHANGED <<world, addonInfo, ctors, heap, uiLog>>

NextAgain ==
  \/ Next
  \/ CallAgain

SpecAgain == Init /\ [][NextAgain]_vars

\* ------------------------------------------------------------- properties

\* The packages of the outermost call's mapping, in key order.
Given == IF world.addonPackages = Undefined THEN <<>> ELSE Val(world.addonPackages)

GivenIds == {Given[i] : i \in 1..Len(Given)}

\* The package as it was before the call.
Original(d) == world.addonInfo[d]

\* The names a package's manifest lists under before, and under after.
ListedNames(list) == IF list = Undefined THEN {} ELSE {Val(list)[i] : i \in 1..Len(Val(list))}

BeforeOf(d) ==
  IF Original(d).pkg.emberAddon = Undefined THEN {}
  ELSE ListedNames(Val(Original(d).pkg.emberAddon).before)

AfterOf(d) ==
  IF Original(d).pkg.emberAddon = Undefined THEN {}
  ELSE ListedNames(Val(Original(d).pkg.emberAddon).after)

\* Package a is registered to come before package b of the same mapping: a lists
\* b's name under before, or b lists a's name under after.
MustPrecede(a, b) == Original(b).name \in BeforeOf(a) \/ Original(a).name \in AfterOf(b)

\* Whether b is reached from a in k steps or fewer of MustPrecede within `ids`.
RECURSIVE Reaches(_, _, _, _)
Reaches(ids, a, b, k) ==
  /\ k > 0
  /\ \/ MustPrecede(a, b)
     \/ \E c \in ids : MustPrecede(a, c) /\ Reaches(ids, c, b, k - 1)

\* The constraints between the packages of the outermost mapping contain a cycle.
HasCycle == \E a \in GivenIds : Reaches(GivenIds, a, a, Cardinality(GivenIds))

\* The positions of the events with this operation and package in the trace.
Positions(op, d) == {p \in 1..Len(trace) : trace[p] = Event(op, d)}

\* The position of the instance of package d in a sequence of instances, 0 if none.
InstancesOf(seq, d) == {p \in 1..Len(seq) : heap[seq[p]].info = d}

\* C1: a call that returns for a mapping whose constraints are acyclic has
\* constructed every package of the mapping exactly once and returns exactly one
\* instance for each and nothing else, and whenever package a is registered to
\* come before package b, a was constructed before b and its instance comes
\* before b's in the returned array.
C1_OrderRespectsConstraints ==
  status = "returned" =>
    /\ ~HasCycle
    /\ Len(result) = Len(Given)
    /\ \A d \in GivenIds :
         /\ Cardinality(InstancesOf(result, d)) = 1
         /\ Cardinality(Positions("new", d)) = 1
    /\ \A a, b \in GivenIds :
         MustPrecede(a, b) =>
           /\ \A p \in InstancesOf(result, a), q \in InstancesOf(result, b) : p < q
           /\ \A p \in Positions("new", a), q \in Positions("new", b) : p < q

\* A call returned three instances in an order that is not the order of the names:
\* the third package was registered to come before the first.
C1_Witness ==
  /\ status = "returned"
  /\ Len(result) = 3
  /\ \E a, b \in GivenIds : a > b /\ MustPrecede(a, b)
  /\ \E a, b \in GivenIds : a < b /\ MustPrecede(a, b)

\* Every package of the outermost mapping has an 'ember-addon' record (the
\* ordering sub-record its before/after lists are in).
AllConfigured == \A d \in GivenIds : Original(d).pkg.emberAddon /= Undefined

\* The events of the trace that resolve, load or construct a package.
Instantiations == {p \in 1..Len(trace) : trace[p].op \in {"resolve", "require", "new", "init", "push"}}

\* C2: when the before/after constraints between the packages of the mapping
\* contain a cycle, the call ends at once with dag-map's cycle error: it never
\* runs on, never returns an array, and no entry point is resolved, no module
\* loaded, no addon constructed and no package written to.
C2_CycleIsFatal ==
  (HasCycle /\ AllConfigured) =>
    /\ status \in {"idle", "threw"}
    /\ status = "threw" => exc = Def(Error("CycleError", Val(exc).name, <<>>))
    /\ result = <<>> /\ stack = <<>>
    /\ Instantiations = {}
    /\ heap = <<>> /\ ctors = <<>>
    /\ addonInfo = world.addonInfo

\* A call has failed on a cycle through three packages, none of which comes before
\* itself or is in a cycle of two.
C2_Witness ==
  /\ HasCycle /\ AllConfigured /\ status = "threw"
  /\ Len(Given) = 3
  /\ \A a, b \in GivenIds : MustPrecede(a, b) => ~MustPrecede(b, a)

\* The package whose addon is the parent of package d (RootParent for a package of
\* the outermost mapping).
ParentKeyOf(d) ==
  IF d \in GivenIds THEN RootParent
  ELSE CHOOSE c \in DOMAIN world.children :
         \E i \in 1..Len(world.children[c]) : world.children[c][i] = d

\* The constructor of package d's module throws; package d's entry point is missing.
Throws(d) == RealPath(world, MainPath(Original(d))) \in world.throwing

Missing(d) == MainPath(Original(d)) \in world.missing

\* The error a throwing constructor of package d throws.
ThrownBy(d) == Error("Thrown", Original(d).name, RealPath(world, MainPath(Original(d))))

\* The package whose addon is the parent an entry of the ui log was written for.
LoggedFor(entry) == IF entry.parent = RootParent THEN RootParent ELSE heap[entry.parent].info

\* The outermost call is over.
Done == status \in {"returned", "threw"}

\* C3: once the constructor of a package has thrown, the call never returns; the
\* error it throws is the SilentError that names the package and its path; when
\* the parent has a ui, the ui has been given the constructor's own error, once,
\* by the time the SilentError is about to be thrown, and nothing else before or
\* after; when the parent has no ui nothing is written and the SilentError is
\* thrown all the same.
C3_ConstructorErrorReported ==
  \A p \in 1..Len(trace) :
    (trace[p].op = "new" /\ Throws(trace[p].id)) =>
      LET d == trace[p].id
          raising == exc /= Undefined \/ (Len(stack) > 0 /\ Top.pc = "reported")
      IN /\ status /= "returned"
         /\ Done => status = "threw"
         /\ exc /= Undefined => exc = Def(Error("SilentError", Original(d).name, Original(d).path))
         /\ IF ParentKeyOf(d) \in world.ui
              THEN /\ Len(uiLog) <= 1
                   /\ raising => Len(uiLog) = 1
                   /\ \A i \in 1..Len(uiLog) :
                        uiLog[i].error = ThrownBy(d) /\ LoggedFor(uiLog[i]) = ParentKeyOf(d)
              ELSE uiLog = <<>>

\* The constructor of the second of three packages threw for a parent with a ui,
\* and the call has thrown.
C3_Witness ==
  /\ status = "threw" /\ Val(exc).kind = "SilentError"
  /\ Len(uiLog) = 1
  /\ Len(Given) = 3 /\ Len(heap) = 1

\* C4: once the constructor of a package has thrown, nothing more is resolved,
\* loaded or constructed (the throwing constructor's call is the last event), no
\* addon is made beyond those made before it, and the call never returns: no
\* array, not even of the addons made so far, reaches the caller.
C4_AllOrNothing ==
  \A p \in 1..Len(trace) :
    (trace[p].op = "new" /\ Throws(trace[p].id)) =>
      /\ p = Len(trace)
      /\ Len(heap) = Cardinality({q \in 1..(p - 1) : trace[q].op = "new"})
      /\ status /= "returned"
      /\ result = <<>>
      /\ Done => status = "threw"

\* The call has thrown after one addon was made, with a package left that was
\* never resolved.
C4_Witness ==
  /\ status = "threw" /\ Val(exc).kind = "SilentError"
  /\ Len(heap) >= 1
  /\ \E d \in GivenIds : Positions("resolve", d) = {}

\* C8: when the entry point of a package does not exist, resolving it throws
\* (fs.realpathSync's error for the missing path): the package's module is not
\* loaded and no addon constructed from it, nothing is resolved, loaded or
\* constructed afterwards, and the call never returns an array.
C8_MissingEntryPointIsFatal ==
  \A p \in 1..Len(trace) :
    (trace[p].op = "resolve" /\ Missing(trace[p].id)) =>
      LET d == trace[p].id IN
      /\ p = Len(trace)
      /\ exc = Def(Error("ENOENT", 0, MainPath(Original(d))))
      /\ Positions("require", d) = {} /\ Positions("new", d) = {}
      /\ \A a \in 1..Len(heap) : heap[a].info /= d
      /\ status /= "returned"
      /\ result = <<>>
      /\ Done => status = "threw"

\* The call has thrown on a missing entry point after one addon was made, with a
\* package left that was never resolved.
C8_Witness ==
  /\ status = "threw" /\ Val(exc).kind = "ENOENT"
  /\ Len(heap) >= 1
  /\ \E d \in GivenIds : Positions("resolve", d) = {}

\* C9: a call with no mapping or an empty one returns [] in its first step:
\* no graph is created, no entry point resolved, no module loaded, no constructor
\* made or called.
C9_EmptyReturnsAtOnce ==
  Given = <<>> =>
    /\ status \in {"idle", "returned"}
    /\ status = "returned" => clock = 1
    /\ result = <<>> /\ exc = Undefined /\ stack = <<>>
    /\ trace = <<>> /\ heap = <<>> /\ ctors = <<>>
    /\ addonInfo = world.addonInfo

\* A call with no mapping at all has returned.
C9_Witness == status = "returned" /\ world.addonPackages = Undefined /\ result = <<>>

\* A main that is there: a string that is not empty.
Present(m) == m /= Undefined /\ Len(Val(m)) > 0

\* Whether the last component of a path (the part after its last "/", "/"s at the
\* end aside) has a file extension: a "." that is not its first character, in a
\* component that is not "..".
HasExtension(str) ==
  LET ends == {k \in 1..Len(str) : str[k] /= "/"}
      end == CHOOSE k \in ends : \A l \in ends : l <= k
      slashes == {k \in 1..end : str[k] = "/"}
      start == IF slashes = {} THEN 1 ELSE (CHOOSE k \in slashes : \A l \in slashes : l <= k) + 1
  IN /\ ends /= {}
     /\ \E k \in (start + 1)..end : str[k] = "."
     /\ SubSeq(str, start, end) /= <<".", ".">>

\* The entry point the rule gives for a manifest: the main of the 'ember-addon'
\* record when it has one, else the top-level main; index.js when that is absent,
\* "." or "./"; with .js appended when it has no extension; else as it is.
ExpectedEntryPoint(pkg) ==
  LET chosen == IF pkg.emberAddon /= Undefined /\ Present(Val(pkg.emberAddon).main)
                  THEN Val(pkg.emberAddon).main
                  ELSE pkg.main
  IN IF ~Present(chosen) THEN IndexJs
     ELSE IF Val(chosen) \in {<<".">>, <<".", "/">>} THEN IndexJs
     ELSE IF ~HasExtension(Val(chosen)) THEN Val(chosen) \o DotJs
     ELSE Val(chosen)

Resolved(d) == Positions("resolve", d) /= {}

\* C10: the entry point of every package the call resolves is the one the rule
\* gives for its manifest: it is the main the call works with (and writes to
\* pkg.main), and the path handed to fs.realpathSync is that main joined to the
\* package's path, whether the file exists (the frame's mainPath) or not (the path
\* of the error).
C10_EntryPointSelection ==
  /\ \A d \in DOMAIN addonInfo :
       Resolved(d) => addonInfo[d].pkg.main = Def(ExpectedEntryPoint(Original(d).pkg))
  /\ \A k \in 1..Len(stack) :
       stack[k].pc /= "each" =>
         LET d == Val(stack[k].order[stack[k].i].val) IN
         stack[k].mainPath = join(Original(d).path, ExpectedEntryPoint(Original(d).pkg))
  /\ \A d \in DOMAIN addonInfo :
       (Resolved(d) /\ Missing(d)) =>
         Val(exc).path = join(Original(d).path, ExpectedEntryPoint(Original(d).pkg))

\* A package whose 'ember-addon' main is "a" and whose top-level main is "a.a" has
\* been resolved to a.js in its directory.
C10_Witness ==
  /\ Len(stack) = 1 /\ Top.pc = "resolved"
  /\ Original(1).pkg.main = Def(<<"a", ".", "a">>)
  /\ Val(Original(1).pkg.emberAddon).main = Def(<<"a">>)
  /\ Top.mainPath = <<"/", "1", "/", "a", ".", "j", "s">>

\* C5 as claimed: no package is ever different from what it was before the call.
C5_NeverMutated == addonInfo = world.addonInfo

\* C5, amended: a package the call has not resolved is as it was before the call;
\* one it has resolved differs at most in its manifest's top-level main, which is
\* the entry point chosen for it. Its name, its path and its 'ember-addon' record
\* are never written.
C5_OnlyMainWritten ==
  /\ DOMAIN addonInfo = DOMAIN world.addonInfo
  /\ \A d \in DOMAIN addonInfo :
       addonInfo[d] = IF Resolved(d)
                        THEN [Original(d) EXCEPT !.pkg.main = Def(ExpectedEntryPoint(Original(d).pkg))]
                        ELSE Original(d)

\* A call has thrown after it wrote a main that was not there to one package, with
\* another package never resolved.
C5_Witness ==
  /\ status = "threw"
  /\ \E d \in GivenIds : Original(d).pkg.main = Undefined /\ addonInfo[d].pkg.main = Def(IndexJs)
  /\ \E d \in GivenIds : ~Resolved(d)

\* C6 as claimed: a package with no 'ember-addon' record is taken to have no
\* constraints: building the graph does not fail on it, and a call that has nothing
\* else to fail on returns an addon for it.
C6_NoConfigIsValid ==
  /\ exc /= Undefined => Val(exc).kind /= "TypeError"
  /\ (/\ Done
      /\ \A d \in GivenIds : BeforeOf(d) = {} /\ AfterOf(d) = {}
      /\ world.missing = {} /\ world.throwing = {}
      /\ Len(Given) = Len(world.addonInfo))
       => /\ status = "returned"
          /\ \A d \in GivenIds : Cardinality(InstancesOf(result, d)) = 1

\* The packages of the mapping package d is in.
MappingOf(d) ==
  IF d \in GivenIds THEN GivenIds
  ELSE {world.children[ParentKeyOf(d)][i] : i \in 1..Len(world.children[ParentKeyOf(d)])}

\* The constraints between the packages `ids` of one mapping contain a cycle.
CycleAmong(ids) == \E a \in ids : Reaches(ids, a, a, Cardinality(ids))

\* C7 as claimed: a name that only occurs in before/after lists never causes an
\* error (a cycle error is only ever thrown for a cycle between the packages of the
\* mapping themselves), and a returned array holds exactly one addon for each
\* package of the mapping.
C7_UnknownNamesAreIgnored ==
  /\ (exc /= Undefined /\ Val(exc).kind = "CycleError") => CycleAmong(MappingOf(Val(exc).name))
  /\ status = "returned" =>
       /\ Len(result) = Len(Given)
       /\ \A d \in GivenIds : Cardinality(InstancesOf(result, d)) = 1

\* The position in the trace at which the second call began (past the end of the
\* trace when there was none).
AgainAt ==
  IF Repeated THEN CHOOSE p \in 1..Len(trace) : trace[p].op = "again" ELSE Len(trace) + 1

\* The packages of the outermost mapping in the order the first call pushed their
\* addons.
FirstOrder ==
  LET PushOfGiven(e) == e.op = "push" /\ e.id \in GivenIds
      pushes == SelectSeq(SubSeq(trace, 1, AgainAt - 1), PushOfGiven)
  IN [i \in 1..Len(pushes) |-> pushes[i].id]

\* The packages of the addons of the returned array, in order.
ResultOrder == [i \in 1..Len(result) |-> heap[result[i]].info]

\* C11: when the first call returned and a second call with the same mapping has
\* returned too, the packages of the addons the second call returns are in the
\* same order as those of the first, for any two packages, related by a
\* constraint or not; and the second call returns whenever the first did, unless
\* an entry point it resolves anew is missing.
C11_Deterministic ==
  (Repeated /\ Len(FirstOrder) = Len(Given)) =>
    /\ status = "returned" => ResultOrder = FirstOrder
    /\ status = "threw" => Val(exc).kind = "ENOENT"

\* Two calls have returned three addons in an order that is not the order of the
\* keys, and no constraint relates the second and the third package.
C11_Witness ==
  /\ Repeated /\ status = "returned"
  /\ Len(result) = 3
  /\ ResultOrder /= Given
  /\ ~MustPrecede(2, 3) /\ ~MustPrecede(3, 2)

\* The real path of the entry point a call resolved for package d.
ModulePathOf(d) == RealPath(world, join(Original(d).path, ExpectedEntryPoint(Original(d).pkg)))

\* The packages whose module, at this real path, has been required, and the one
\* for which it was required first.
BuiltFor(path) == {d \in DOMAIN addonInfo : Positions("require", d) /= {} /\ ModulePathOf(d) = path}

FirstBuiltFor(path) ==
  CHOOSE d \in BuiltFor(path) :
    \A e \in BuiltFor(path) :
      \A p \in Positions("require", d), q \in Positions("require", e) : p <= q

\* The constructors that are module functions.
ModuleFunctions == {c \in 1..Len(ctors) : ctors[c].fn}

\* C12 as claimed: a module function's root and pkg are the ones the module set
\* itself, whatever they are, and the main directory and the package of its first
\* build only when it set none.
C12_ExplicitValuesKept ==
  \A c \in ModuleFunctions :
    LET own == LoadedModule(world, ctors[c].path) IN
    /\ ctors[c].root = IF own.root /= Undefined THEN own.root ELSE Def(dirname(ctors[c].path))
    /\ ctors[c].pkg = IF own.pkg /= Undefined THEN own.pkg ELSE Def(FirstBuiltFor(ctors[c].path))

\* C12, amended: a module function's root and pkg are the ones the module set
\* itself when these are truthy, and else (nothing set, or a root of "") the main
\* directory and the package of its first build; a later build of the same module
\* changes neither. There is one constructor per module function.
C12_TruthyValuesKept ==
  /\ \A c \in ModuleFunctions :
       LET own == LoadedModule(world, ctors[c].path) IN
       /\ ctors[c].root = IF own.root /= Undefined /\ Val(own.root) /= <<>>
                            THEN own.root ELSE Def(dirname(ctors[c].path))
       /\ ctors[c].pkg = IF own.pkg /= Undefined THEN own.pkg ELSE Def(FirstBuiltFor(ctors[c].path))
  /\ \A c, e \in ModuleFunctions : ctors[c].path = ctors[e].path => c = e

\* A module function that set its root to "" has been built for two packages: its
\* root is the main directory and its pkg the first package's.
C12_Witness ==
  \E c \in ModuleFunctions :
    /\ LoadedModule(world, ctors[c].path).root = Def(<<>>)
    /\ Cardinality(BuiltFor(ctors[c].path)) = 2
    /\ ctors[c].root = Def(<<"/", "1">>)
    /\ ctors[c].pkg = Def(1)

\* C13 as claimed: no two addons reach the same _meta_ (each is built by a
\* constructor of its own), no _meta_ has had its initializeIn assigned more than
\* once, and the _meta_ an addon reaches once line 128 gave it its constructor is
\* one whose initializeIn has been assigned, for that addon.
C13_MetaWrittenOnce ==
  /\ \A a, b \in 1..Len(heap) : a /= b => heap[a].builtBy /= heap[b].builtBy
  /\ \A c \in 1..Len(ctors) : ctors[c].meta /= Undefined => Val(ctors[c].meta).writes <= 1
  /\ \A a \in 1..Len(heap) :
       heap[a].constructor /= Undefined => Val(ctors[Val(heap[a].constructor)].meta).writes = 1

\* The order of a stable topological sort of the outermost mapping: of the
\* packages `left` (in the order they were added) the first that no other of them
\* must precede is emitted next, until none is left or none can be.
RECURSIVE StableOrder(_, _)
StableOrder(left, out) ==
  LET ready == {i \in 1..Len(left) : \A j \in 1..Len(left) : ~MustPrecede(left[j], left[i])} IN
  IF ready = {} THEN out
  ELSE LET k == CHOOSE i \in ready : \A j \in ready : i <= j
       IN StableOrder(SubSeq(left, 1, k - 1) \o SubSeq(left, k + 1, Len(left)), Append(out, left[k]))

\* C14 as claimed: the addons of a returned array are in the order of the stable
\* topological sort.
C14_StableTopologicalOrder == status = "returned" => ResultOrder = StableOrder(Given, <<>>)

\* The names a list of a manifest holds, in order.
ListOf(list) == IF list = Undefined THEN <<>> ELSE Val(list)

\* The constraints of the packages `ds` as pairs <<a, b>> of names, a to come
\* before b, in the order they are registered: package by package, each one's
\* before list, then its after list.
RECURSIVE Registered(_)
Registered(ds) ==
  IF ds = <<>> THEN <<>>
  ELSE LET d == Head(ds)
           config == Val(Original(d).pkg.emberAddon)
           before == ListOf(config.before)
           after == ListOf(config.after)
       IN [i \in 1..Len(before) |-> <<Original(d).name, before[i]>>]
          \o [i \in 1..Len(after) |-> <<after[i], Original(d).name>>]
          \o Registered(Tail(ds))

\* The names in the order they are first mentioned: package by package, its own
\* name, then the names of its before list, then those of its after list.
RECURSIVE Mentioned(_)
Mentioned(ds) ==
  IF ds = <<>> THEN <<>>
  ELSE LET d == Head(ds)
           config == Val(Original(d).pkg.emberAddon)
       IN <<Original(d).name>> \o ListOf(config.before) \o ListOf(config.after)
          \o Mentioned(Tail(ds))

\* A sequence without the repetitions of its elements.
RECURSIVE Distinct(_, _)
Distinct(seq, seen) ==
  IF seq = <<>> THEN <<>>
  ELSE IF Head(seq) \in seen THEN Distinct(Tail(seq), seen)
  ELSE <<Head(seq)>> \o Distinct(Tail(seq), seen \cup {Head(seq)})

\* The names registered to come before name x, in the order of registration.
Predecessors(x) ==
  LET edges == Registered(Given)
      Into(e) == e[2] = x
      into == SelectSeq(edges, Into)
  IN Distinct([i \in 1..Len(into) |-> into[i][1]], {})

\* The names that are registered to come before no name, in the order of mention.
LastNames ==
  LET edges == Registered(Given)
      IsLast(x) == \A i \in 1..Len(edges) : edges[i][1] /= x
  IN SelectSeq(Distinct(Mentioned(Given), {}), IsLast)

\* A depth-first walk over the names `todo`, in order: a name not emitted yet is
\* emitted after the walk over its predecessors.
RECURSIVE Emit(_, _, _)
Emit(todo, seen, out) ==
  IF todo = <<>> THEN [seen |-> seen, out |-> out]
  ELSE IF Head(todo) \in seen THEN Emit(Tail(todo), seen, out)
  ELSE LET before == Emit(Predecessors(Head(todo)), seen \cup {Head(todo)}, out)
       IN Emit(Tail(todo), before.seen, Append(before.out, Head(todo)))

\* The packages of the outermost mapping in the order of that walk from the last
\* names (the names of no package left out).
DepthFirstOrder ==
  LET IsPackage(x) == \E d \in GivenIds : Original(d).name = x
      names == SelectSeq(Emit(LastNames, {}, <<>>).out, IsPackage)
  IN [i \in 1..Len(names) |-> CHOOSE d \in GivenIds : Original(d).name = names[i]]

\* C14, amended: the addons of a returned array are in the order of the
\* depth-first walk: for each name that is to come before no other, in the order
\* of first mention, the names registered to come before it are emitted first
\* (each with its own predecessors first, in the order of registration), then
\* the name itself.
C14_DepthFirstOrder == status = "returned" => ResultOrder = DepthFirstOrder

\* Packages A (after C), B and C, added in this order, have been returned in the
\* order C, A, B, where the stable sort gives B, C, A.
C14_Witness ==
  /\ status = "returned"
  /\ Len(Given) = 3
  /\ AfterOf(1) = {3} /\ BeforeOf(1) = {}
  /\ \A d \in {2, 3} : AfterOf(d) = {} /\ BeforeOf(d) = {}
  /\ ResultOrder = <<3, 1, 2>>
  /\ StableOrder(Given, <<>>) = <<2, 3, 1>>

\* The packages an addon of package d has of its own, and those below it at any
\* depth down to k levels.
ChildrenOf(d) == {world.children[d][i] : i \in 1..Len(world.children[d])}

RECURSIVE Descendants(_, _)
Descendants(d, k) ==
  IF k = 0 THEN {}
  ELSE ChildrenOf(d) \cup UNION {Descendants(c, k - 1) : c \in ChildrenOf(d)}

Below(d) == Descendants(d, Len(world.addonInfo))

\* The positions in the trace of what was done for package d (its entry point
\* resolved, its module required, its addon constructed, initialized, pushed).
StepsOf(d) == {p \in Instantiations : trace[p].id = d}

\* C15: of two packages P and Q of one mapping with P resolved first, P's addon
\* has been pushed, and with it every package below P, before Q's entry point is
\* resolved (so before anything is done for Q); whatever is done for a package
\* below P is done after P's initializeAddons was called and before P's addon is
\* pushed, and a pushed P has all the packages below it pushed; while the call
\* for P's own packages is under way, P's addon has no constructor yet and is in
\* no array.
C15_DepthFirst ==
  /\ \A P, Q \in DOMAIN addonInfo :
       (/\ P /= Q /\ Resolved(P) /\ Resolved(Q)
        /\ MappingOf(P) = MappingOf(Q)
        /\ \A p \in Positions("resolve", P), q \in Positions("resolve", Q) : p < q)
         => /\ Positions("push", P) /= {}
            /\ \A q \in StepsOf(Q) :
                 /\ \A p \in StepsOf(P) : p < q
                 /\ \A x \in Below(P) : Positions("push", x) /= {} /\ \A p \in StepsOf(x) : p < q
  /\ \A P \in DOMAIN addonInfo :
       /\ \A x \in Below(P) :
            \A p \in StepsOf(x) :
              /\ \E q \in Positions("init", P) : q < p
              /\ \A q \in Positions("push", P) : p < q
       /\ Positions("push", P) /= {} => \A x \in Below(P) : Positions("push", x) /= {}
  /\ \A k \in 1..Len(stack) :
       stack[k].pc = "initializing" =>
         /\ heap[stack[k].addon].constructor = Undefined
         /\ Positions("push", heap[stack[k].addon].info) = {}
         /\ \A j \in 1..Len(stack) :
              \A i \in 1..Len(stack[j].addons) : stack[j].addons[i] /= stack[k].addon

\* A call has returned two addons, the first of which has a package of its own
\* whose addon has one too.
C15_Witness ==
  /\ status = "returned" /\ Len(result) = 2
  /\ \E x \in ChildrenOf(1) : ChildrenOf(x) /= {} /\ Positions("push", x) /= {}
  /\ Positions("push", 2) /= {}
  /\ Len(heap) = 4

\* The addons that have been pushed to an array: those of the returned array, of
\* the arrays of the calls under way, and of the arrays nested calls returned.
InArray(seq) == {seq[i] : i \in 1..Len(seq)}

Pushed ==
  InArray(result)
    \cup UNION {InArray(stack[k].addons) : k \in 1..Len(stack)}
    \cup UNION {InArray(Val(heap[a].addons)) : a \in {b \in 1..Len(heap) : heap[b].addons /= Undefined}}

\* C16: every addon in an array (the returned one included) has the constructor
\* it was built by as its constructor, which is the one made for its package's
\* module; when it has an initializeAddons, that was called once, after the
\* addon was constructed and before it was pushed; when it has none, nothing
\* was called and its addons are [].
C16_InitializedOnce ==
  \A a \in Pushed :
    LET d == heap[a].info
        c == heap[a].builtBy
    IN /\ heap[a].constructor = Def(c)
       /\ ctors[c].path = ModulePathOf(d)
       /\ heap[a].addons /= Undefined
       /\ IF ctors[c].path \in world.bare
            THEN /\ heap[a].initCalls = 0
                 /\ heap[a].addons = Def(<<>>)
                 /\ Positions("init", d) = {}
            ELSE /\ heap[a].initCalls = 1
                 /\ Cardinality(Positions("init", d)) = 1
                 /\ \A q \in Positions("init", d) :
                      /\ \A p \in Positions("new", d) : p < q
                      /\ \A p \in Positions("push", d) : q < p

\* A call has returned an addon whose initializeAddons was called and gave it an
\* addon of its own, and an addon below it has no initializeAddons and no addons.
C16_Witness ==
  /\ status = "returned"
  /\ \E a \in InArray(result) : heap[a].initCalls = 1 /\ heap[a].addons /= Def(<<>>)
  /\ \E a \in Pushed : heap[a].initCalls = 0 /\ heap[a].addons = Def(<<>>)

\* C17: once the constructor of a package below an addon of the outermost call
\* has thrown, every enclosing call is left in turn and the outermost call throws,
\* with no array returned; the error on its way out and at the caller is the
\* SilentError of the failing call, as it was thrown; and the constructor's own
\* error has been written at most once, to the ui of the addon that is the
\* failing package's parent (if it has one) and to no other, whichever of the
\* ancestors have a ui.
C17_NestedFailurePropagates ==
  \A p \in 1..Len(trace) :
    (trace[p].op = "new" /\ Throws(trace[p].id) /\ trace[p].id \notin GivenIds) =>
      LET d == trace[p].id IN
      /\ status \in {"running", "threw"}
      /\ result = <<>>
      /\ status = "threw" => stack = <<>>
      /\ exc /= Undefined => exc = Def(Error("SilentError", Original(d).name, Original(d).path))
      /\ \A k \in 1..Len(stack) : stack[k].pc \in {"initializing", "caught", "reported"}
      /\ Len(uiLog) <= (IF ParentKeyOf(d) \in world.ui THEN 1 ELSE 0)
      /\ exc /= Undefined => Len(uiLog) = (IF ParentKeyOf(d) \in world.ui THEN 1 ELSE 0)
      /\ \A i \in 1..Len(uiLog) :
           /\ uiLog[i].parent /= RootParent
           /\ heap[uiLog[i].parent].info = ParentKeyOf(d)
           /\ uiLog[i].error = ThrownBy(d)

\* The outermost call has thrown the SilentError of a package two levels below
\* it; the root parent and every addon have a ui, and one error was written.
C17_Witness ==
  /\ status = "threw" /\ Val(exc).kind = "SilentError"
  /\ \E d \in DOMAIN addonInfo :
       /\ Val(exc).name = Original(d).name
       /\ d \notin GivenIds /\ ParentKeyOf(d) \notin GivenIds
       /\ {RootParent, ParentKeyOf(d), ParentKeyOf(ParentKeyOf(d))} \subseteq world.ui
  /\ Len(uiLog) = 1

\* C18 as claimed: whenever a package's entry point has been resolved, by the
\* first call or again by the second, the main the call chose and wrote to
\* pkg.main is the one the rule gives for the package's manifest as it was before
\* the first call, and the path resolved is that main joined to the package's path.
C18_SameEntryPointAgain ==
  /\ \A d \in DOMAIN addonInfo :
       Resolved(d) => addonInfo[d].pkg.main = Def(ExpectedEntryPoint(Original(d).pkg))
  /\ \A k \in 1..Len(stack) :
       stack[k].pc /= "each" =>
         LET d == Val(stack[k].order[stack[k].i].val) IN
         stack[k].mainPath = join(Original(d).path, ExpectedEntryPoint(Original(d).pkg))

====
